---- MODULE Spec2Model ----
(***************************************************************************)
(* Model of package controller (controller.go): the registration function  *)
(* Action, its shape validator controllerType, and the http.Handler        *)
(* closure Action returns, run by several concurrent requests.             *)
(*                                                                         *)
(* The closure is modelled statement by statement.  Each statement of one  *)
(* invocation is one step; steps of different invocations interleave       *)
(* freely, as goroutines of net/http do.  The variable err of Action is    *)
(* captured by the closure and assigned by it (line 111 uses "=", not      *)
(* ":="), so it is one variable shared by every invocation.  The accesses  *)
(* to it are unsynchronised; the model lets every read return the value of *)
(* the latest write in the interleaving, which is one of the outcomes a    *)
(* racy Go build can produce and is enough to show every outcome used      *)
(* below (a torn interface read adds only further panics at err.Error()).  *)
(***************************************************************************)
EXTENDS Integers, Sequences, FiniteSets, TLC

\* ---------------------------------------------------------------- bounds
NumInvocations == 2        \* concurrent invocations of the bound handler
MaxArity == 2              \* longest parameter / result list of an action
MaxPtrDepth == 2           \* deepest pointer nesting of a parameter type

\* ------------------------------------------------------- program constants
StatusInternalServerError == 500

Invocations == 1..NumInvocations

\* ------------------------------------------------------------------ types
\* The named struct types an action can be about:
\*   TestController    embeds Base and keeps Base's Init, Destroy and Error;
\*   ViewController    view.ViewController: embeds Base, its Init fills View
\*                     and returns Base.Init's result;
\*   CustomController  embeds Base and has an Init of its own that calls
\*                     Base.Init and may return an error;
\*   PanicController   as CustomController, and its methods and its Error may
\*                     panic;
\*   NoController      has none of Init, Destroy, Error.
BaseTypes == {"TestController", "ViewController", "CustomController", "NoController"}
PanicTypes == {"PanicController"}

\* A parameter type: `depth` levels of pointer around the named struct `base`.
ParamTypesOf(bases) == [depth : 0..MaxPtrDepth, base : bases]
ParamTypes == ParamTypesOf(BaseTypes)
\* A result type.
OutTypes == {"error", "string"}

RECURSIVE SeqsUpTo(_, _)
SeqsUpTo(S, n) ==
    IF n = 0 THEN {<<>>}
    ELSE LET shorter == SeqsUpTo(S, n - 1)
         IN  shorter \cup {Append(s, x) : s \in {q \in shorter : Len(q) = n - 1}, x \in S}

\* What reflect.ValueOf(action) can describe: the zero Value (action is the
\* nil interface), a non-function value, or a function with its signature.
FuncValuesOf(bases) == [kind : {"Func"}, in : SeqsUpTo(ParamTypesOf(bases), MaxArity),
                        out : SeqsUpTo(OutTypes, MaxArity)]
FuncValues == FuncValuesOf(BaseTypes)
ActionValues ==
    FuncValues \cup {[kind |-> "Invalid", in |-> <<>>, out |-> <<>>],
                     [kind |-> "String", in |-> <<>>, out |-> <<>>]}

\* A method expression (*T).M, as in controller.Action((*MyController).Index):
\* a function whose first parameter is the receiver, of type *T.
IsMethodExpr(a) == a.kind = "Func" /\ Len(a.in) >= 1 /\ a.in[1].depth = 1
\* The method expressions of a method without further parameters.
MethodExprs(bases) == {a \in FuncValuesOf(bases) : IsMethodExpr(a) /\ Len(a.in) = 1}

\* ----------------------------------------------------------------- errors
\* An error value is identified by its message and by who produced it.
Nil == [msg |-> "nil", by |-> 0]
NewError(m) == [msg |-> m, by |-> 0]
InitErr(i) == [msg |-> "init failed", by |-> i]
ActionErr(i) == [msg |-> "action failed", by |-> i]
NotCalled == [msg |-> "not called", by |-> 0]

ErrNotFunc == NewError("Action is not a function")
ErrNumIn == NewError("Wrong Number of Arguments in action")
ErrNumOut == NewError("Wrong Number of return values in action")
ErrReturnType == NewError("Action return type invalid")
ErrNotController == NewError("Controller does not implement ctrl.Controller interface")

\* ------------------------------------------------------------ reflection
\* out.Implements(error)
ImplementsError(out) == out = "error"

\* reflect.PtrTo(t).Implements(Controller): a pointer to a struct that embeds
\* Base has Init, Destroy and Error; *NoController has only Foo; a pointer to
\* a pointer has no methods.
PtrImplementsController(ty) == ty.depth = 0 /\ ty.base # "NoController"

\* for t.Kind() == reflect.Ptr { t = t.Elem() }
RECURSIVE StripPtr(_)
StripPtr(ty) == IF ty.depth > 0 THEN StripPtr([ty EXCEPT !.depth = @ - 1]) ELSE ty

NoType == [depth |-> 0, base |-> "none"]
Failed(e) == [outcome |-> "error", t |-> NoType, err |-> e]
Accepted(ty) == [outcome |-> "ok", t |-> ty, err |-> Nil]
\* reflect.Value.Type panics on the zero Value.
ReflectPanic == [outcome |-> "panic", t |-> NoType, err |-> Nil]

\* The validator of ctrl.go (lines 46-67), which has no checks of the results.
controllerTypeNoReturnChecks(action) ==
    IF action.kind = "Invalid" THEN ReflectPanic
    ELSE IF action.kind # "Func" THEN Failed(ErrNotFunc)
    ELSE IF Len(action.in) # 1 THEN Failed(ErrNumIn)
    ELSE LET ty == StripPtr(action.in[1])
         IN  IF ~PtrImplementsController(ty) THEN Failed(ErrNotController)
             ELSE Accepted(ty)

\* The validator without its last check.
controllerTypeNoContractCheck(action) ==
    IF action.kind = "Invalid" THEN ReflectPanic
    ELSE IF action.kind # "Func" THEN Failed(ErrNotFunc)
    ELSE IF Len(action.in) # 1 THEN Failed(ErrNumIn)
    ELSE IF Len(action.out) # 1 THEN Failed(ErrNumOut)
    ELSE IF ~ImplementsError(action.out[1]) THEN Failed(ErrReturnType)
    ELSE Accepted(StripPtr(action.in[1]))

controllerType(action) ==
    IF action.kind = "Invalid" THEN ReflectPanic
    ELSE IF action.kind # "Func" THEN Failed(ErrNotFunc)
    ELSE IF Len(action.in) # 1 THEN Failed(ErrNumIn)
    ELSE IF Len(action.out) # 1 THEN Failed(ErrNumOut)
    ELSE IF ~ImplementsError(action.out[1]) THEN Failed(ErrReturnType)
    ELSE LET ty == StripPtr(action.in[1])
         IN  IF ~PtrImplementsController(ty) THEN Failed(ErrNotController)
             ELSE Accepted(ty)

\* ------------------------------------------------------------------ state
\* The calls of Action the program makes with its argument: the first, and
\* possibly a second one with the same argument.
Handlers == {1, 2}

VARIABLES
    action,      \* the argument of Action
    calls,       \* how many times the program calls Action(action)
    checked,     \* per call of Action: what controllerType did ("none" before)
    validated,   \* per call of Action: how many times controllerType has run
    reg,         \* per call of Action: "start", "registered" (handler returned),
                 \* "panicked"
    val,         \* per handler, captured: reflect.ValueOf(action)
    t,           \* per handler, captured: the type controllerType returned
    err,         \* per handler, captured AND assigned by the closure on line 111
    errWriter,   \* per handler: who assigned err last: 0 is Action, i > 0 is
                 \* invocation i
    heap,        \* the controller instances reflect.New has allocated
    pc,          \* per invocation: the statement of the closure it is at
    hnd,         \* per invocation: the handler it is an invocation of (0: none yet)
    v,           \* per invocation: its local v / c, an index into heap (0: unset)
    ownInit,     \* per invocation: what its own c.Init call returned
    ret,         \* per invocation: its local ret
    deferred,    \* per invocation: defer c.Destroy() has been executed
    panicking,   \* per invocation: a panic is unwinding its stack
    errRead,     \* per invocation: the writers whose value of err it has read
    seen,        \* per invocation: the instance's data field as its method found it
    log,         \* per invocation: the lifecycle calls made, in order
    resp         \* per response sink: what has been written to it

vars == <<action, calls, checked, validated, reg, val, t, err, errWriter, heap, pc,
          hnd, v, ownInit, ret, deferred, panicking, errRead, seen, log, resp>>

regVars == <<action, calls, checked, validated, reg, val, t>>

\* A lifecycle call on instance `inst`; code and msg are the arguments of Error.
Call(name, inst, code, msg) == [call |-> name, inst |-> inst, code |-> code, msg |-> msg]
NewCall(inst) == Call("New", inst, 0, Nil)
InitCall(inst) == Call("Init", inst, 0, Nil)
MethodCall(inst) == Call("Method", inst, 0, Nil)
DestroyCall(inst) == Call("Destroy", inst, 0, Nil)
ErrorCall(inst, code, e) == Call("Error", inst, code, e)

\* The zero value of the controller struct: Base's two fields and View are
\* nil and the controller's own field is 0.
ZeroValue(ty) ==
    [type |-> ty, Request |-> 0, ResponseWriter |-> 0, View |-> 0, data |-> 0, owner |-> 0]

NotValidated == [outcome |-> "none", t |-> NoType, err |-> Nil]
NoValue == [kind |-> "Invalid", in |-> <<>>, out |-> <<>>]

\* The state before the first call of Action: the program is about to call
\* Action n times with one of `actions`.
InitOf(actions, n) ==
    /\ action \in actions
    /\ calls = n
    /\ checked = [h \in Handlers |-> NotValidated]
    /\ validated = [h \in Handlers |-> 0]
    /\ reg = [h \in Handlers |-> "start"]
    /\ val = [h \in Handlers |-> NoValue]
    /\ t = [h \in Handlers |-> NoType]
    /\ err = [h \in Handlers |-> Nil]
    /\ errWriter = [h \in Handlers |-> 0]
    /\ heap = <<>>
    /\ pc = [i \in Invocations |-> "idle"]
    /\ hnd = [i \in Invocations |-> 0]
    /\ v = [i \in Invocations |-> 0]
    /\ ownInit = [i \in Invocations |-> NotCalled]
    /\ ret = [i \in Invocations |-> NotCalled]
    /\ deferred = [i \in Invocations |-> FALSE]
    /\ panicking = [i \in Invocations |-> FALSE]
    /\ errRead = [i \in Invocations |-> {}]
    /\ seen = [i \in Invocations |-> -1]
    /\ log = [i \in Invocations |-> <<>>]
    /\ resp = [i \in Invocations |-> <<>>]

\* One registration of any value.
Init == InitOf(ActionValues, 1)

\* ----------------------------------------------------------- registration
\* Action, lines 101-108: validate once; panic, or return the closure.  A
\* panic ends the program's start-up, so a later call of Action needs the
\* earlier one to have returned.
Action(h) ==
    /\ h <= calls
    /\ reg[h] = "start"
    /\ IF h = 1 THEN TRUE ELSE reg[h - 1] = "registered"
    /\ LET r == controllerType(action)
       IN  /\ checked' = [checked EXCEPT ![h] = r]
           /\ validated' = [validated EXCEPT ![h] = @ + 1]
           /\ IF r.outcome = "ok"
              THEN /\ reg' = [reg EXCEPT ![h] = "registered"]
                   /\ val' = [val EXCEPT ![h] = action]
                   /\ t' = [t EXCEPT ![h] = r.t]
                   /\ err' = [err EXCEPT ![h] = r.err]
              ELSE /\ reg' = [reg EXCEPT ![h] = "panicked"]
                   /\ UNCHANGED <<val, t, err>>
    /\ UNCHANGED <<action, calls, errWriter, heap, pc, hnd, v, ownInit, ret, deferred,
                   panicking, errRead, seen, log, resp>>

\* ------------------------------------------------------------ the closure
\* The variable err the closure of handler h has captured: the one of its own
\* call of Action.
PackageLevelErr(h) == 1

ErrVar(h) == h

\* A handler that caches its controller: the first instance is handed out again.
CachedInstance(h, ty) ==
    IF h = <<>> THEN [heap |-> Append(h, ZeroValue(ty)), inst |-> 1]
    ELSE [heap |-> h, inst |-> 1]

\* reflect.New(t): a new zero-valued instance; returns the heap after the
\* allocation and the index of the new instance.
New(h, ty) == [heap |-> Append(h, ZeroValue(ty)), inst |-> Len(h) + 1]

\* Lines 109-110 preceded by a call of the validator in every request.
InstantiateValidating(i, h) ==
    /\ reg[h] = "registered"
    /\ \A k \in Handlers : k <= calls => reg[k] = "registered"
    /\ pc[i] = "idle"
    /\ checked' = [checked EXCEPT ![h] = controllerType(val[h])]
    /\ validated' = [validated EXCEPT ![h] = @ + 1]
    /\ LET n == New(heap, t[h])
       IN  /\ heap' = [n.heap EXCEPT ![n.inst].owner = i]
           /\ v' = [v EXCEPT ![i] = n.inst]
           /\ log' = [log EXCEPT ![i] = Append(@, NewCall(n.inst))]
    /\ hnd' = [hnd EXCEPT ![i] = h]
    /\ pc' = [pc EXCEPT ![i] = "Init"]
    /\ UNCHANGED <<action, calls, reg, val, t, err, errWriter, ownInit, ret, deferred,
                   panicking, errRead, seen, resp>>

\* Lines 109-110: v := reflect.New(t); c := v.Interface().(Controller), in an
\* invocation of handler h.  Requests are served once the program has made
\* its calls of Action (README: http.Handle(..., controller.Action(...)), then
\* http.ListenAndServe).
Instantiate(i, h) ==
    /\ reg[h] = "registered"
    /\ \A k \in Handlers : k <= calls => reg[k] = "registered"
    /\ pc[i] = "idle"
    /\ LET n == New(heap, t[h])
       IN  /\ heap' = [n.heap EXCEPT ![n.inst].owner = i]
           /\ v' = [v EXCEPT ![i] = n.inst]
           /\ log' = [log EXCEPT ![i] = Append(@, NewCall(n.inst))]
    /\ hnd' = [hnd EXCEPT ![i] = h]
    /\ pc' = [pc EXCEPT ![i] = "Init"]
    /\ UNCHANGED <<regVars, err, errWriter, ownInit, ret, deferred, panicking,
                   errRead, seen, resp>>

\* The controller type of invocation i: the t its handler has captured.
TypeOf(i) == IF hnd[i] = 0 THEN NoType ELSE t[hnd[i]]

\* Base.Init with the assignment of the response sink left out.
BaseInitDropsWriter(b, rw, r) == [b EXCEPT !.Request = r]

\* Base.Init, lines 68-71: b.Request, b.ResponseWriter = r, rw
BaseInit(b, rw, r) == [b EXCEPT !.Request = r, !.ResponseWriter = rw]

\* The Init of the controller: Base.Init itself, ViewController.Init
\* (view.go, lines 18-22: a new View map, then Base.Init), or a controller's
\* own Init, which calls Base.Init as the comment of lines 65-67 asks.
ControllerInit(c, rw, r) ==
    IF c.type.base = "ViewController"
    THEN BaseInit([c EXCEPT !.View = rw], rw, r)
    ELSE BaseInit(c, rw, r)

\* What Init can return: Base.Init and ViewController.Init return nil
\* (lines 70 and view.go 21); a controller's own Init returns nil or an error.
InitResults(i) ==
    IF TypeOf(i).base \in {"TestController", "ViewController"}
    THEN {Nil} ELSE {Nil, InitErr(i)}

\* Line 111: err = c.Init(rw, r) with rw and r those of invocation i.  The
\* result is assigned to the captured variable err.
CallInit(i, e) ==
    /\ pc[i] = "Init"
    /\ heap' = [heap EXCEPT ![v[i]] = ControllerInit(@, i, i)]
    /\ log' = [log EXCEPT ![i] = Append(@, InitCall(v[i]))]
    /\ ownInit' = [ownInit EXCEPT ![i] = e]
    /\ err' = [err EXCEPT ![ErrVar(hnd[i])] = e]
    /\ errWriter' = [errWriter EXCEPT ![ErrVar(hnd[i])] = i]
    /\ pc' = [pc EXCEPT ![i] = "Defer"]
    /\ UNCHANGED <<regVars, hnd, v, ret, deferred, panicking, errRead, seen, resp>>

\* Line 112 without the "defer": c.Destroy() runs at once.
DestroyAtOnce(i) ==
    /\ pc[i] = "Defer"
    /\ log' = [log EXCEPT ![i] = Append(@, DestroyCall(v[i]))]
    /\ pc' = [pc EXCEPT ![i] = "CheckErr"]
    /\ UNCHANGED <<regVars, err, errWriter, heap, hnd, v, ownInit, ret, deferred,
                   panicking, errRead, seen, resp>>

\* Line 112: defer c.Destroy()
DeferDestroy(i) ==
    /\ pc[i] = "Defer"
    /\ deferred' = [deferred EXCEPT ![i] = TRUE]
    /\ pc' = [pc EXCEPT ![i] = "CheckErr"]
    /\ UNCHANGED <<regVars, err, errWriter, heap, hnd, v, ownInit, ret, panicking,
                   errRead, seen, log, resp>>

\* Line 113: if err != nil -- a read of the captured variable.
CheckErr(i) ==
    /\ pc[i] = "CheckErr"
    /\ errRead' = [errRead EXCEPT ![i] = @ \cup {errWriter[ErrVar(hnd[i])]}]
    /\ pc' = [pc EXCEPT ![i] = IF err[ErrVar(hnd[i])] # Nil THEN "InitError" ELSE "Call"]
    /\ UNCHANGED <<regVars, err, errWriter, heap, hnd, v, ownInit, ret, deferred,
                   panicking, seen, log, resp>>

\* Base.Error, lines 78-80: http.Error(b.ResponseWriter, error, code) writes
\* the code and the message to the sink the instance holds.
Error(inst, code, e) ==
    LET sink == heap[inst].ResponseWriter
    IN  resp' = [resp EXCEPT ![sink] = Append(@, [code |-> code, body |-> e])]

\* Whether a call of Error can panic: the Error of a PanicController can; the
\* others are Base.Error, which does not.
ErrorPanics(i) ==
    IF TypeOf(i).base = "PanicController" THEN {FALSE, TRUE} ELSE {FALSE}

\* c.Error(code, e.Error()) in invocation i: the call, which panics when the
\* controller's Error does (p) or when the instance holds no sink (http.Error
\* on a nil ResponseWriter).
ReportError(i, code, e, p) ==
    /\ log' = [log EXCEPT ![i] = Append(@, ErrorCall(v[i], code, e))]
    /\ IF p \/ heap[v[i]].ResponseWriter = 0
       THEN /\ panicking' = [panicking EXCEPT ![i] = TRUE]
            /\ UNCHANGED resp
       ELSE /\ Error(v[i], code, e)
            /\ UNCHANGED panicking

\* Lines 114-115: c.Error(http.StatusInternalServerError, err.Error()); return.
\* err.Error() reads the captured variable again; on a nil interface the
\* method call panics.
ReportInitErr(i, p) ==
    /\ pc[i] = "InitError"
    /\ errRead' = [errRead EXCEPT ![i] = @ \cup {errWriter[ErrVar(hnd[i])]}]
    /\ IF err[ErrVar(hnd[i])] = Nil
       THEN /\ panicking' = [panicking EXCEPT ![i] = TRUE]
            /\ UNCHANGED <<log, resp>>
       ELSE ReportError(i, StatusInternalServerError, err[ErrVar(hnd[i])], p)
    /\ pc' = [pc EXCEPT ![i] = "Return"]
    /\ UNCHANGED <<regVars, err, errWriter, heap, hnd, v, ownInit, ret, deferred, seen>>

\* What the bound method of invocation i writes to its response sink.
MethodBody(i) == [code |-> 200, body |-> [msg |-> "Hello World", by |-> i]]

\* The bound method panicked instead of returning.
Panicked == [msg |-> "panic", by |-> 0]

\* What the bound method can do: return nil or an error; a method of a
\* PanicController can also panic.
MethodResults(i) ==
    {Nil, ActionErr(i)}
        \cup (IF TypeOf(i).base = "PanicController" THEN {Panicked} ELSE {})

\* reflect.Value.Call checks that the argument is assignable to the
\* function's parameter type: v is a *T, T the type controllerType returned.
Assignable(fn, ty) == fn.in[1] = [depth |-> 1, base |-> ty.base]

\* Line 117: ret := val.Call([]reflect.Value{v})[0].Interface().  The method
\* reads and writes its controller, writes its body to the sink the
\* controller holds and returns nil or an error, or panics.  Call panics when
\* v is not assignable to the parameter; the method's write panics when the
\* controller holds no sink.
CallAction(i, e) ==
    /\ pc[i] = "Call"
    /\ IF ~Assignable(val[hnd[i]], t[hnd[i]])
       THEN /\ panicking' = [panicking EXCEPT ![i] = TRUE]
            /\ pc' = [pc EXCEPT ![i] = "Return"]
            /\ UNCHANGED <<seen, heap, resp, log, ret>>
       ELSE /\ seen' = [seen EXCEPT ![i] = heap[v[i]].data]
            /\ heap' = [heap EXCEPT ![v[i]].data = i]
            /\ log' = [log EXCEPT ![i] = Append(@, MethodCall(v[i]))]
            /\ IF e = Panicked \/ heap[v[i]].ResponseWriter = 0
               THEN /\ panicking' = [panicking EXCEPT ![i] = TRUE]
                    /\ pc' = [pc EXCEPT ![i] = "Return"]
                    /\ UNCHANGED <<resp, ret>>
               ELSE /\ resp' = [resp EXCEPT ![heap[v[i]].ResponseWriter] =
                                   Append(@, MethodBody(i))]
                    /\ ret' = [ret EXCEPT ![i] = e]
                    /\ pc' = [pc EXCEPT ![i] = "CheckRet"]
                    /\ UNCHANGED panicking
    /\ UNCHANGED <<regVars, err, errWriter, hnd, v, ownInit, deferred, errRead>>

\* Lines 118-121 testing the captured err where the code tests ret.
CheckRetTestsErr(i, p) ==
    /\ pc[i] = "CheckRet"
    /\ IF err[ErrVar(hnd[i])] # Nil
       THEN ReportError(i, StatusInternalServerError, ret[i], p)
       ELSE UNCHANGED <<log, resp, panicking>>
    /\ pc' = [pc EXCEPT ![i] = "Return"]
    /\ UNCHANGED <<regVars, err, errWriter, heap, hnd, v, ownInit, ret, deferred,
                   errRead, seen>>

\* Lines 118-121 with the cleanup done first and the error reported after it.
CheckRetDestroysFirst(i, p) ==
    /\ pc[i] = "CheckRet"
    /\ IF ret[i] # Nil
       THEN /\ Error(v[i], StatusInternalServerError, ret[i])
            /\ log' = [log EXCEPT ![i] =
                          Append(Append(@, DestroyCall(v[i])),
                                 ErrorCall(v[i], StatusInternalServerError, ret[i]))]
            /\ deferred' = [deferred EXCEPT ![i] = FALSE]
       ELSE UNCHANGED <<log, resp, deferred>>
    /\ pc' = [pc EXCEPT ![i] = "Return"]
    /\ UNCHANGED <<regVars, err, errWriter, heap, hnd, v, ownInit, ret,
                   panicking, errRead, seen>>

\* Lines 118-121: if ret != nil { c.Error(500, ret.(error).Error()); return }
CheckRet(i, p) ==
    /\ pc[i] = "CheckRet"
    /\ IF ret[i] # Nil
       THEN ReportError(i, StatusInternalServerError, ret[i], p)
       ELSE UNCHANGED <<log, resp, panicking>>
    /\ pc' = [pc EXCEPT ![i] = "Return"]
    /\ UNCHANGED <<regVars, err, errWriter, heap, hnd, v, ownInit, ret, deferred,
                   errRead, seen>>

\* Cleanup placed after the call of the method instead of deferred: an early
\* return skips it.
DestroyAfterMethodOnly(i) ==
    /\ pc[i] = "Return"
    /\ IF deferred[i] /\ ret[i] # NotCalled
       THEN log' = [log EXCEPT ![i] = Append(@, DestroyCall(v[i]))]
       ELSE UNCHANGED log
    /\ pc' = [pc EXCEPT ![i] = IF panicking[i] THEN "panicked" ELSE "done"]
    /\ UNCHANGED <<regVars, err, errWriter, heap, hnd, v, ownInit, ret, deferred,
                   panicking, errRead, seen, resp>>

\* Cleanup as a plain last statement of the closure: a panic passes it by.
DestroyOnReturnOnly(i) ==
    /\ pc[i] = "Return"
    /\ IF deferred[i] /\ ~panicking[i]
       THEN log' = [log EXCEPT ![i] = Append(@, DestroyCall(v[i]))]
       ELSE UNCHANGED log
    /\ pc' = [pc EXCEPT ![i] = IF panicking[i] THEN "panicked" ELSE "done"]
    /\ UNCHANGED <<regVars, err, errWriter, heap, hnd, v, ownInit, ret, deferred,
                   panicking, errRead, seen, resp>>

\* The closure returns or unwinds: the deferred c.Destroy() runs (Base.Destroy,
\* lines 74-75, does nothing else), then the call ends, normally or with the
\* panic passed on to net/http.
RunDeferred(i) ==
    /\ pc[i] = "Return"
    /\ IF deferred[i]
       THEN log' = [log EXCEPT ![i] = Append(@, DestroyCall(v[i]))]
       ELSE UNCHANGED log
    /\ pc' = [pc EXCEPT ![i] = IF panicking[i] THEN "panicked" ELSE "done"]
    /\ UNCHANGED <<regVars, err, errWriter, heap, hnd, v, ownInit, ret, deferred,
                   panicking, errRead, seen, resp>>

Next ==
    \/ \E h \in Handlers : Action(h)
    \/ \E i \in Invocations : \E h \in Handlers : Instantiate(i, h)
    \/ \E i \in Invocations : \E e \in InitResults(i) : CallInit(i, e)
    \/ \E i \in Invocations : DeferDestroy(i)
    \/ \E i \in Invocations : CheckErr(i)
    \/ \E i \in Invocations : \E p \in ErrorPanics(i) : ReportInitErr(i, p)
    \/ \E i \in Invocations : \E e \in MethodResults(i) : CallAction(i, e)
    \/ \E i \in Invocations : \E p \in ErrorPanics(i) : CheckRet(i, p)
    \/ \E i \in Invocations : RunDeferred(i)

Spec == Init /\ [][Next]_vars

\* The program registers a method expression of a controller twice.
InitTwice == InitOf(MethodExprs({"CustomController"}), 2)
SpecTwice == InitTwice /\ [][Next]_vars

\* One registration of a method expression of a controller whose methods and
\* Error may panic.
InitPanic == InitOf(MethodExprs(PanicTypes), 1)
SpecPanic == InitPanic /\ [][Next]_vars

\* ============================================================== properties
Count(s, name) == Cardinality({k \in DOMAIN s : s[k].call = name})
Has(s, name) == \E k \in DOMAIN s : s[k].call = name
Pos(s, name) == CHOOSE k \in DOMAIN s : s[k].call = name
IsError(e) == e \notin {Nil, NotCalled}
Ended(i) == pc[i] \in {"done", "panicked"}
ErrorCalls(s) == SelectSeq(s, LAMBDA c : c.call = "Error")

\* The calls an invocation is meant to make, given what its own Init and its
\* own method returned.
Intended(i) ==
    IF IsError(ownInit[i])
    THEN <<NewCall(v[i]), InitCall(v[i]),
           ErrorCall(v[i], StatusInternalServerError, ownInit[i]), DestroyCall(v[i])>>
    ELSE <<NewCall(v[i]), InitCall(v[i]), MethodCall(v[i])>>
         \o (IF IsError(ret[i])
             THEN <<ErrorCall(v[i], StatusInternalServerError, ret[i])>> ELSE <<>>)
         \o <<DestroyCall(v[i])>>

\* C1: concurrent invocations share nothing they write: an invocation reads
\* the captured err only as it wrote it itself, and the calls of an invocation
\* that returned are those its own Init and method results determine.
C1_InvocationsIndependent ==
    \A i \in Invocations :
        /\ errRead[i] \subseteq {i}
        /\ pc[i] = "done" => log[i] = Intended(i)

\* C2: Destroy is called exactly once, on the invocation's own instance, in
\* every invocation, whatever Init and the method returned.
C2_DestroyExactlyOnce ==
    \A i \in Invocations :
        /\ Count(log[i], "Destroy") <= 1
        /\ Ended(i) => /\ Count(log[i], "Destroy") = 1
                       /\ log[i][Pos(log[i], "Destroy")].inst = v[i]

C2_Witness ==
    \E i, j \in Invocations :
        /\ pc[i] = "done" /\ IsError(ownInit[i]) /\ Count(log[i], "Destroy") = 1
        /\ pc[j] = "done" /\ IsError(ret[j]) /\ Count(log[j], "Destroy") = 1

\* C3: an invocation whose Init returned an error calls Error(500, message of
\* that error) and never invokes the bound method.  (Stated for a handler
\* whose method takes *T, so that val.Call itself cannot fail.)
C3_InitErrorReported ==
    \A i \in Invocations :
        (IsError(ownInit[i]) /\ Assignable(val[hnd[i]], t[hnd[i]])) =>
            /\ ~Has(log[i], "Method")
            /\ pc[i] \in {"Return", "done", "panicked"} =>
                   ErrorCalls(log[i]) =
                       <<ErrorCall(v[i], StatusInternalServerError, ownInit[i])>>

\* C4: Error is called at most once per invocation, and only when the
\* invocation's own Init or own method returned an error.
C4_ErrorOnlyOnOwnFailure ==
    \A i \in Invocations :
        /\ Count(log[i], "Error") <= 1
        /\ Has(log[i], "Error") => IsError(ownInit[i]) \/ IsError(ret[i])

\* C5: once Init has succeeded and the method has been invoked, Error(500,
\* message of the returned error) is called if and only if the method returned
\* an error; after a nil return only Destroy follows and the response is what
\* the method wrote.
C5_ErrorIffMethodFailed ==
    \A i \in Invocations :
        (ownInit[i] = Nil /\ ret[i] # NotCalled /\ pc[i] \in {"Return", "done", "panicked"}) =>
            /\ ErrorCalls(log[i]) =
                   IF ret[i] # Nil
                   THEN <<ErrorCall(v[i], StatusInternalServerError, ret[i])>> ELSE <<>>
            /\ ret[i] = Nil =>
                   /\ \A k \in DOMAIN log[i] :
                          k > Pos(log[i], "Method") => log[i][k].call = "Destroy"
                   /\ resp[i] = <<MethodBody(i)>>

C5_Witness ==
    \E i, j \in Invocations :
        /\ pc[i] = "done" /\ ownInit[i] = Nil /\ IsError(ret[i]) /\ Has(log[i], "Error")
        /\ pc[j] = "done" /\ ownInit[j] = Nil /\ ret[j] = Nil /\ resp[j] = <<MethodBody(j)>>

\* C6: every invocation allocates exactly one new zero-valued instance, and
\* no other invocation uses it: all calls of an invocation are on its own
\* instance, and its method finds the zero value, never another's write.
C6_FreshInstancePerInvocation ==
    /\ Len(heap) = Cardinality({i \in Invocations : pc[i] # "idle"})
    /\ \A i \in Invocations :
           /\ Count(log[i], "New") = (IF pc[i] = "idle" THEN 0 ELSE 1)
           /\ \A k \in DOMAIN log[i] : log[i][k].inst = v[i]
           /\ pc[i] # "idle" =>
                  /\ v[i] \in DOMAIN heap
                  /\ heap[v[i]].owner = i
                  /\ heap[v[i]].data \in {0, i}
                  /\ heap[v[i]].Request \in {0, i}
                  /\ pc[i] = "Init" => heap[v[i]] = [ZeroValue(t[hnd[i]]) EXCEPT !.owner = i]
           /\ seen[i] \in {-1, 0}
           /\ \A j \in Invocations : (i # j /\ pc[i] # "idle" /\ pc[j] # "idle") => v[i] # v[j]

C6_Witness ==
    \E i, j \in Invocations :
        /\ i # j /\ v[i] # v[j]
        /\ Ended(i) /\ Ended(j)
        /\ seen[i] = 0 /\ seen[j] = 0
        /\ heap[v[i]].data = i /\ heap[v[j]].data = j

\* The place of a call in the lifecycle.
Rank(name) ==
    CASE name = "New" -> 1 [] name = "Init" -> 2 [] name = "Method" -> 3
      [] name = "Error" -> 4 [] name = "Destroy" -> 5

\* C7: the calls of an invocation come in the order instantiate, Init, bound
\* method, Error, Destroy, each at most once; nothing follows Destroy, and an
\* invocation that has ended has Destroy as its last call.
C7_LifecycleOrder ==
    \A i \in Invocations :
        /\ \A k \in DOMAIN log[i] :
               /\ k > 1 => Rank(log[i][k - 1].call) < Rank(log[i][k].call)
               /\ k <= 2 => Rank(log[i][k].call) = k
        /\ Ended(i) => /\ log[i] # <<>>
                       /\ log[i][Len(log[i])].call = "Destroy"

C7_Witness ==
    \E i, j \in Invocations :
        /\ pc[i] = "done" /\ pc[j] = "done"
        /\ Len(log[i]) = 5 /\ log[i][5].call = "Destroy"
        /\ IsError(ownInit[j]) /\ ~Has(log[j], "Method") /\ log[j][4].call = "Destroy"

\* C8: in an invocation that reports an error, Destroy has been called before
\* Error is.
C8_DestroyBeforeError ==
    \A i \in Invocations :
        Has(log[i], "Error") =>
            /\ Has(log[i], "Destroy")
            /\ Pos(log[i], "Destroy") < Pos(log[i], "Error")

\* C8, amended: in an invocation that reports an error, Error is called
\* before Destroy: Destroy has not run when Error is called, and it has run,
\* after Error, when the invocation ends.
C8_ErrorBeforeDestroy ==
    \A i \in Invocations :
        Has(log[i], "Error") =>
            /\ Has(log[i], "Destroy") => Pos(log[i], "Error") < Pos(log[i], "Destroy")
            /\ Ended(i) => Has(log[i], "Destroy")

C8_Witness ==
    \E i \in Invocations :
        /\ pc[i] = "done"
        /\ Has(log[i], "Error") /\ Has(log[i], "Destroy")
        /\ Pos(log[i], "Error") < Pos(log[i], "Destroy")

\* C9: whatever error Init or the method returned, the invocation does not
\* panic, and it returns after exactly one Error(500, message) call.  (Stated
\* for a handler whose method takes *T, so that val.Call itself cannot fail.)
C9_NoFailureEscapes ==
    \A i \in Invocations :
        ((IsError(ownInit[i]) \/ IsError(ret[i])) /\ Assignable(val[hnd[i]], t[hnd[i]])) =>
            /\ ~panicking[i]
            /\ pc[i] = "done" =>
                   /\ Count(log[i], "Error") = 1
                   /\ ErrorCalls(log[i])[1].code = StatusInternalServerError
                   /\ ErrorCalls(log[i])[1].msg \in {ownInit[i], ret[i]}

\* The five checks of the validator, each on its own.
IsCallable(a) == a.kind = "Func"
OneParameter(a) == Len(a.in) = 1
OneResult(a) == Len(a.out) = 1
ReturnsError(a) == ImplementsError(a.out[1])
ParameterIsController(a) == PtrImplementsController(StripPtr(a.in[1]))

\* Every check before the k-th passes.
PassesBefore(a, k) ==
    /\ k > 1 => IsCallable(a)
    /\ k > 2 => OneParameter(a)
    /\ k > 3 => OneResult(a)
    /\ k > 4 => ReturnsError(a)
    /\ k > 5 => ParameterIsController(a)

FirstFailureIs(a, res) ==
    /\ (PassesBefore(a, 1) /\ ~IsCallable(a)) => res = Failed(ErrNotFunc)
    /\ (PassesBefore(a, 2) /\ ~OneParameter(a)) => res = Failed(ErrNumIn)
    /\ (PassesBefore(a, 3) /\ ~OneResult(a)) => res = Failed(ErrNumOut)
    /\ (PassesBefore(a, 4) /\ ~ReturnsError(a)) => res = Failed(ErrReturnType)
    /\ (PassesBefore(a, 5) /\ ~ParameterIsController(a)) => res = Failed(ErrNotController)
    /\ res.outcome = "ok" <=> PassesBefore(a, 6)
    /\ res.outcome = "ok" => res.t = StripPtr(a.in[1])
    /\ (~IsCallable(a) \/ ~OneParameter(a)) => res.err # ErrReturnType /\ res.err # ErrNotController

\* C10: for any input the validator's result is the error of the first of
\* its five checks, in the order callable, one parameter, one result, result
\* is an error, parameter is a controller, that fails; the input is accepted,
\* with the pointee type, exactly when all five pass.
C10_FirstFailingCheck ==
    \A h \in Handlers : reg[h] # "start" => FirstFailureIs(action, checked[h])

\* The same on every input that is not the nil interface.
ValidatorOrderOnValues ==
    \A h \in Handlers :
        (reg[h] # "start" /\ action.kind # "Invalid") => FirstFailureIs(action, checked[h])

\* A method reference with its receiver as the only parameter.
OneParamFunc(a) == a.kind = "Func" /\ Len(a.in) = 1

\* The result list does not represent a failure: no result at all, or a
\* single result that is not an error.
NoFailureResult(a) ==
    \/ a.out = <<>>
    \/ Len(a.out) = 1 /\ ~ImplementsError(a.out[1])

\* C11: for every method reference whose return type does not represent a
\* failure (it returns a string, or nothing), Action fails with the "return
\* type invalid" error.
C11_InvalidReturnType ==
    \A h \in Handlers :
        (reg[h] # "start" /\ OneParamFunc(action) /\ NoFailureResult(action)) =>
            /\ reg[h] = "panicked"
            /\ checked[h] = Failed(ErrReturnType)

\* C11, amended: Action fails for every such reference, with the "return type
\* invalid" error when the reference returns exactly one value that is not an
\* error, and with the "wrong number of return values" error when it returns
\* nothing.
C11_InvalidReturnTypeOrCount ==
    \A h \in Handlers :
        (reg[h] # "start" /\ OneParamFunc(action) /\ NoFailureResult(action)) =>
            /\ reg[h] = "panicked"
            /\ checked[h] = IF action.out = <<>> THEN Failed(ErrNumOut)
                            ELSE Failed(ErrReturnType)

C11_Witness ==
    /\ OneParamFunc(action) /\ IsMethodExpr(action)
    /\ action.out = <<"string">>
    /\ reg[1] = "panicked"
    /\ checked[1] = Failed(ErrReturnType)

\* The pointer form of the parameter's type lacks Init, Destroy or Error.
ContractUnsatisfied(a) == ~PtrImplementsController(StripPtr(a.in[1]))

\* C12: for every method reference whose parameter type's pointer form does
\* not implement Init, Destroy and Error, Action fails with the "does not
\* implement Controller" error.
C12_ContractNotSatisfied ==
    \A h \in Handlers :
        (reg[h] # "start" /\ OneParamFunc(action) /\ ContractUnsatisfied(action)) =>
            /\ reg[h] = "panicked"
            /\ checked[h] = Failed(ErrNotController)

\* C12, amended: Action fails for every such reference, and with the "does
\* not implement Controller" error when the reference returns exactly one
\* value, an error; the checks of the results come first.
C12_ContractNotSatisfiedAfterResults ==
    \A h \in Handlers :
        (reg[h] # "start" /\ OneParamFunc(action) /\ ContractUnsatisfied(action)) =>
            /\ reg[h] = "panicked"
            /\ (Len(action.out) = 1 /\ ImplementsError(action.out[1])) =>
                   checked[h] = Failed(ErrNotController)

C12_Witness ==
    /\ action.kind = "Func"
    /\ action.in = <<[depth |-> 1, base |-> "NoController"]>>
    /\ action.out = <<"error">>
    /\ reg[1] = "panicked"
    /\ checked[1] = Failed(ErrNotController)

\* C13: every call of Action runs the validator exactly once; the call
\* panics, returning no handler, exactly when the validator did not accept
\* the value (on every value but the nil interface: exactly when the
\* validator returned an error), and returns a handler otherwise; the
\* invocations of a returned handler never run the validator again.
C13_ValidatedOncePerRegistration ==
    \A h \in Handlers :
        /\ validated[h] = (IF reg[h] = "start" THEN 0 ELSE 1)
        /\ reg[h] # "start" =>
               /\ checked[h] = controllerType(action)
               /\ reg[h] = "panicked" <=> checked[h].outcome # "ok"
               /\ action.kind # "Invalid" =>
                      (reg[h] = "panicked" <=> checked[h].outcome = "error")
               /\ val[h] = (IF reg[h] = "registered" THEN action ELSE NoValue)
        /\ reg[h] # "registered" => \A i \in Invocations : hnd[i] # h

C13_Witness ==
    \E i, j \in Invocations :
        /\ i # j /\ Ended(i) /\ Ended(j)
        /\ hnd[i] = 1 /\ hnd[j] = 1
        /\ reg[1] = "registered" /\ validated[1] = 1

\* Invocation i is the only one of its handler.
AloneOnHandler(i) == \A j \in Invocations : j # i => hnd[j] # hnd[i]

\* C14: two registrations of the same valid method reference yield two
\* handlers with the same function and controller type that share no mutable
\* state: an invocation reads err only as an invocation of its own handler
\* wrote it, and whatever the invocations of the other handler do, an
\* invocation that is alone on its handler makes exactly the calls, and
\* writes exactly the response, that its own Init and method results
\* determine.
C14_HandlersIndependent ==
    /\ (reg[1] = "registered" /\ reg[2] = "registered") =>
           /\ val[1] = val[2] /\ t[1] = t[2]
           /\ ErrVar(1) # ErrVar(2)
    /\ \A i \in Invocations :
           /\ \A w \in errRead[i] : w \in Invocations /\ hnd[w] = hnd[i]
           /\ (Ended(i) /\ AloneOnHandler(i)) =>
                  /\ pc[i] = "done"
                  /\ log[i] = Intended(i)
                  /\ resp[i] =
                         IF IsError(ownInit[i])
                         THEN <<[code |-> StatusInternalServerError, body |-> ownInit[i]]>>
                         ELSE <<MethodBody(i)>> \o
                              (IF IsError(ret[i])
                               THEN <<[code |-> StatusInternalServerError, body |-> ret[i]]>>
                               ELSE <<>>)

C14_Witness ==
    \E i, j \in Invocations :
        /\ hnd[i] = 1 /\ hnd[j] = 2
        /\ pc[i] = "done" /\ pc[j] = "done"
        /\ IsError(ownInit[i]) /\ ownInit[j] = Nil
        /\ err[ErrVar(1)] = ownInit[i] /\ err[ErrVar(2)] = Nil
        /\ log[i] = Intended(i) /\ log[j] = Intended(j)

\* C15: the parameter of every accepted method reference is exactly *T, T
\* the type the validator returned, and so an invocation whose Init returned
\* nil, and which read that nil, gets its bound method called: the call on
\* line 117 never aborts on the type of its argument.
C15_CallIsWellTyped ==
    \A i \in Invocations :
        (/\ ownInit[i] = Nil
         /\ errRead[i] = {i}
         /\ pc[i] \in {"CheckRet", "Return", "done", "panicked"}) =>
            /\ val[hnd[i]].in[1] = [depth |-> 1, base |-> t[hnd[i]].base]
            /\ Has(log[i], "Method")

\* With a parameter of type *T the call on line 117 is well-typed.
CallIsWellTypedOnPointerReceivers ==
    \A i \in Invocations :
        (/\ ownInit[i] = Nil
         /\ errRead[i] = {i}
         /\ pc[i] \in {"CheckRet", "Return", "done", "panicked"}
         /\ val[hnd[i]].in[1].depth = 1) =>
            /\ Has(log[i], "Method")
            /\ panicking[i] => TypeOf(i).base = "PanicController"

\* The invocation left the closure by a panic raised inside its bound method.
MethodPanicked(i) ==
    /\ pc[i] = "panicked" /\ Has(log[i], "Method") /\ ret[i] = NotCalled

\* The invocation left the closure by a panic raised inside Error.
ErrorPanicked(i) ==
    /\ pc[i] = "panicked" /\ Has(log[i], "Error")

\* C16: once Init has returned, Destroy runs exactly once on the instance
\* before control leaves the closure, on every way out: a return, or a panic
\* raised inside the bound method or inside Error.  Destroy is the last call
\* of the invocation, and while the invocation is still running it has not
\* been called.
C16_DestroyOnEveryExit ==
    \A i \in Invocations :
        ownInit[i] # NotCalled =>
            IF Ended(i)
            THEN /\ Count(log[i], "Destroy") = 1
                 /\ log[i][Len(log[i])] = DestroyCall(v[i])
                 /\ deferred[i]
            ELSE ~Has(log[i], "Destroy")

C16_Witness ==
    \E i, j \in Invocations :
        /\ MethodPanicked(i) /\ ErrorPanicked(j)
        /\ log[i][Len(log[i])] = DestroyCall(v[i])
        /\ log[j][Len(log[j])] = DestroyCall(v[j])
        /\ Count(log[i], "Destroy") = 1 /\ Count(log[j], "Destroy") = 1

\* The controller of invocation i has Base.Init or ViewController.Init as its Init.
HasBaseInit(i) == TypeOf(i).base \in {"TestController", "ViewController"}

\* What the Error calls of a log write to a sink, in order.
ErrorWrites(s) ==
    [k \in DOMAIN ErrorCalls(s) |->
        [code |-> ErrorCalls(s)[k].code, body |-> ErrorCalls(s)[k].msg]]

\* C17: for a controller whose Init is Base.Init or ViewController.Init, Init
\* returns nil and stores the request and the response sink of this
\* invocation: from the return of Init on, through the bound method and any
\* Error call, the instance's Request and ResponseWriter are those of this
\* invocation, never nil and never another invocation's; every Error call
\* writes its status code and message to that sink, and nothing of another
\* invocation is written to it.
C17_BaseHoldsOwnRequestAndSink ==
    \A i \in Invocations :
        (pc[i] # "idle" /\ HasBaseInit(i)) =>
            /\ ownInit[i] \in {NotCalled, Nil}
            /\ IF ownInit[i] = NotCalled
               THEN heap[v[i]].Request = 0 /\ heap[v[i]].ResponseWriter = 0
               ELSE heap[v[i]].Request = i /\ heap[v[i]].ResponseWriter = i
            /\ SelectSeq(resp[i], LAMBDA w : w.code = StatusInternalServerError)
                   = ErrorWrites(log[i])
            /\ \A k \in DOMAIN resp[i] : resp[i][k].body.by = i
            /\ Has(log[i], "Method") =>
                   (resp[i] # <<>> /\ resp[i][1] = MethodBody(i))

C17_Witness ==
    \E i, j \in Invocations :
        /\ i # j /\ pc[i] = "done" /\ pc[j] = "done"
        /\ TypeOf(i).base = "ViewController"
        /\ heap[v[i]].Request = i /\ heap[v[i]].ResponseWriter = i
        /\ heap[v[j]].Request = j /\ heap[v[j]].ResponseWriter = j
        /\ IsError(ret[i]) /\ IsError(ret[j])
        /\ resp[i] = <<MethodBody(i), [code |-> StatusInternalServerError, body |-> ret[i]]>>
        /\ resp[j] = <<MethodBody(j), [code |-> StatusInternalServerError, body |-> ret[j]]>>

====
